---- MODULE Spec2Model ----
(***************************************************************************)
(* State-machine model of poem's AddData middleware                        *)
(* (src/poem/src/middleware/add_data.rs).                                  *)
(*                                                                         *)
(* Setup time: AddData::new builds middleware descriptors, transform wraps *)
(* the current outermost endpoint in an AddDataEndpoint.  Request time:    *)
(* every request owns its extension store; AddDataEndpoint::call inserts a *)
(* clone of its value (line 93) and delegates to the wrapped endpoint      *)
(* (line 94), whose result it returns as its own.                          *)
(*                                                                         *)
(* Endpoints are numbered in application order: 0 is the base handler,     *)
(* endpoint i (i >= 1) is the i-th AddDataEndpoint produced by transform.  *)
(***************************************************************************)
EXTENDS Integers, Sequences, FiniteSets, TLC

\* ------------------------------------------------------------------ bounds
MaxLayers == 2

\* ------------------------------------------------------------ input domains
Requests == {"r1", "r2"}
Types == {"i32", "u8"}
\* values AddData::new may be given, as <<type identity, value>>
DataVals == {<<"i32", 100>>, <<"i32", 200>>, <<"u8", 7>>}
\* extension stores a request may carry when it reaches the endpoint
InitExts == { {}, {<<"i32", 1>>, <<"u8", 1>>} }
\* outcomes of the base handler: Ok(r) or Err(e)
Results == {[kind |-> "ok", val |-> 200], [kind |-> "err", val |-> 404],
            [kind |-> "err", val |-> 500]}
NoResult == [kind |-> "none", val |-> 0]
NoValue == 0
\* the value a request's own handler may put into its store
HandlerVal(r) == IF r = "r1" THEN 11 ELSE 12
NoOp == [op |-> "none", type |-> "-", val |-> 0]

VARIABLES
    phase,   \* "setup" while the application is built, then "serving"
    mws,     \* the AddData middlewares constructed so far: [type, value]
    eps,     \* the AddDataEndpoints, in application order: [inner, type, value]
    pc,      \* per request: position of its call chain
    cur,     \* per request: the endpoint whose call body is executing
    stack,   \* per request: endpoints awaiting their wrapped endpoint, innermost first
    req0,    \* per request: the extension store it arrived with
    ext,     \* per request: its extension store, a set of <<type, value>> entries
    hop,     \* per request: the write its handler made to its own store, if any
    rets,    \* per request: the result each endpoint's call returned
    log      \* per request: the calls, insertions and returns made so far

vars == <<phase, mws, eps, pc, cur, stack, req0, ext, hop, rets, log>>

\* --------------------------------------------------------- extension store
ExtHas(e, t) == \E x \in e : x[1] = t
ExtGet(e, t) == IF ExtHas(e, t) THEN (CHOOSE x \in e : x[1] = t)[2] ELSE NoValue
ExtInsert(e, t, v) == {x \in e : x[1] # t} \cup {<<t, v>>}
ExtRemove(e, t) == {x \in e : x[1] # t}

\* T: Clone -- the duplicate is equal to the original
Clone(v) == v

Ev(e, i) == [ev |-> e, ep |-> i]

CountRetries(r) == Cardinality({k \in DOMAIN log[r] : log[r][k].ev = "retry"})

TypeOK ==
    /\ phase \in {"setup", "serving"}
    /\ mws \subseteq [type : Types, value : Int]
    /\ Len(eps) <= MaxLayers
    /\ pc \in [Requests -> {"idle", "insert", "delegate", "handler", "handled", "await", "done"}]
    /\ cur \in [Requests -> 0..MaxLayers]

Init ==
    /\ phase = "setup"
    /\ mws = {}
    /\ eps = <<>>
    /\ pc = [r \in Requests |-> "idle"]
    /\ cur = [r \in Requests |-> 0]
    /\ stack = [r \in Requests |-> <<>>]
    /\ req0 = [r \in Requests |-> {}]
    /\ ext = [r \in Requests |-> {}]
    /\ hop = [r \in Requests |-> NoOp]
    /\ rets = [r \in Requests |-> [i \in 0..MaxLayers |-> NoResult]]
    /\ log = [r \in Requests |-> <<>>]

\* ------------------------------------------------------------- setup time
\* AddData::new(value)
New(t, v) ==
    /\ phase = "setup"
    /\ [type |-> t, value |-> v] \notin mws
    /\ mws' = mws \cup {[type |-> t, value |-> v]}
    /\ UNCHANGED <<phase, eps, pc, cur, stack, req0, ext, hop, rets, log>>

\* mutant: the new endpoint wraps the base handler instead of ep
TransformWrapsBase(m) ==
    /\ phase = "setup"
    /\ m \in mws
    /\ Len(eps) < MaxLayers
    /\ eps' = Append(eps, [inner |-> 0, type |-> m.type, value |-> Clone(m.value)])
    /\ UNCHANGED <<phase, mws, pc, cur, stack, req0, ext, hop, rets, log>>

\* AddData::transform(&self, ep), ep being the current outermost endpoint
Transform(m) ==
    /\ phase = "setup"
    /\ m \in mws
    /\ Len(eps) < MaxLayers
    /\ eps' = Append(eps, [inner |-> Len(eps), type |-> m.type, value |-> Clone(m.value)])
    /\ UNCHANGED <<phase, mws, pc, cur, stack, req0, ext, hop, rets, log>>

\* the application is handed to the server / test client
Run ==
    /\ phase = "setup"
    /\ phase' = "serving"
    /\ UNCHANGED <<mws, eps, pc, cur, stack, req0, ext, hop, rets, log>>

\* ----------------------------------------------------------- request time
\* endpoint j's call starts for request r (j = 0: the base handler)
Invoke(r, j) ==
    /\ log' = [log EXCEPT ![r] = Append(@, Ev("call", j))]
    /\ cur' = [cur EXCEPT ![r] = j]
    /\ pc' = [pc EXCEPT ![r] = IF j = 0 THEN "handler" ELSE "insert"]

\* a request carrying store e0 is sent to the outermost endpoint
Send(r, e0) ==
    /\ phase = "serving"
    /\ pc[r] = "idle"
    /\ req0' = [req0 EXCEPT ![r] = e0]
    /\ ext' = [ext EXCEPT ![r] = e0]
    /\ Invoke(r, Len(eps))
    /\ UNCHANGED <<phase, mws, eps, stack, hop, rets>>

\* mutant: call delegates without inserting anything
InsertSkipped(r) ==
    /\ pc[r] = "insert"
    /\ ext' = ext
    /\ log' = [log EXCEPT ![r] = Append(@, Ev("insert", cur[r]))]
    /\ pc' = [pc EXCEPT ![r] = "delegate"]
    /\ UNCHANGED <<phase, mws, eps, cur, stack, req0, hop, rets>>

\* mutant: the value is inserted only when the slot is empty (entry().or_insert)
InsertIfAbsent(r) ==
    /\ pc[r] = "insert"
    /\ ext' = [ext EXCEPT ![r] = IF ExtHas(@, eps[cur[r]].type) THEN @
                              ELSE ExtInsert(@, eps[cur[r]].type, Clone(eps[cur[r]].value))]
    /\ log' = [log EXCEPT ![r] = Append(@, Ev("insert", cur[r]))]
    /\ pc' = [pc EXCEPT ![r] = "delegate"]
    /\ UNCHANGED <<phase, mws, eps, cur, stack, req0, hop, rets>>

\* mutant: the value goes into a store shared by all requests
InsertShared(r) ==
    /\ pc[r] = "insert"
    /\ ext' = [q \in Requests |-> ExtInsert(ext[q], eps[cur[r]].type, Clone(eps[cur[r]].value))]
    /\ log' = [log EXCEPT ![r] = Append(@, Ev("insert", cur[r]))]
    /\ pc' = [pc EXCEPT ![r] = "delegate"]
    /\ UNCHANGED <<phase, mws, eps, cur, stack, req0, hop, rets>>

\* mutant: the store is replaced by one holding only the value
InsertReplaceAll(r) ==
    /\ pc[r] = "insert"
    /\ ext' = [ext EXCEPT ![r] = {<<eps[cur[r]].type, Clone(eps[cur[r]].value)>>}]
    /\ log' = [log EXCEPT ![r] = Append(@, Ev("insert", cur[r]))]
    /\ pc' = [pc EXCEPT ![r] = "delegate"]
    /\ UNCHANGED <<phase, mws, eps, cur, stack, req0, hop, rets>>

\* mutant: the entry is added without replacing the entry of the same type
InsertPush(r) ==
    /\ pc[r] = "insert"
    /\ ext' = [ext EXCEPT ![r] = @ \cup {<<eps[cur[r]].type, Clone(eps[cur[r]].value)>>}]
    /\ log' = [log EXCEPT ![r] = Append(@, Ev("insert", cur[r]))]
    /\ pc' = [pc EXCEPT ![r] = "delegate"]
    /\ UNCHANGED <<phase, mws, eps, cur, stack, req0, hop, rets>>

\* mutant: the value is moved out of the endpoint instead of cloned
InsertMove(r) ==
    /\ pc[r] = "insert"
    /\ ext' = [ext EXCEPT ![r] = ExtInsert(@, eps[cur[r]].type, eps[cur[r]].value)]
    /\ eps' = [eps EXCEPT ![cur[r]].value = NoValue]
    /\ log' = [log EXCEPT ![r] = Append(@, Ev("insert", cur[r]))]
    /\ pc' = [pc EXCEPT ![r] = "delegate"]
    /\ UNCHANGED <<phase, mws, cur, stack, req0, hop, rets>>

\* line 93: req.extensions_mut().insert(self.value.clone())
Insert(r) ==
    /\ pc[r] = "insert"
    /\ ext' = [ext EXCEPT ![r] = ExtInsert(@, eps[cur[r]].type, Clone(eps[cur[r]].value))]
    /\ log' = [log EXCEPT ![r] = Append(@, Ev("insert", cur[r]))]
    /\ pc' = [pc EXCEPT ![r] = "delegate"]
    /\ UNCHANGED <<phase, mws, eps, cur, stack, req0, hop, rets>>

\* mutant: the wrapped endpoint is given a fresh request instead of req
DelegateFreshRequest(r) ==
    /\ pc[r] = "delegate"
    /\ stack' = [stack EXCEPT ![r] = <<cur[r]>> \o @]
    /\ ext' = [ext EXCEPT ![r] = {}]
    /\ Invoke(r, eps[cur[r]].inner)
    /\ UNCHANGED <<phase, mws, eps, req0, hop, rets>>

\* line 94: self.inner.call(req) -- the wrapped endpoint's call starts
Delegate(r) ==
    /\ pc[r] = "delegate"
    /\ stack' = [stack EXCEPT ![r] = <<cur[r]>> \o @]
    /\ Invoke(r, eps[cur[r]].inner)
    /\ UNCHANGED <<phase, mws, eps, req0, ext, hop, rets>>

\* the base handler inserts into the store of the request it owns
HandlerInsert(r, t) ==
    /\ pc[r] = "handler"
    /\ ext' = [ext EXCEPT ![r] = ExtInsert(@, t, HandlerVal(r))]
    /\ hop' = [hop EXCEPT ![r] = [op |-> "insert", type |-> t, val |-> HandlerVal(r)]]
    /\ pc' = [pc EXCEPT ![r] = "handled"]
    /\ UNCHANGED <<phase, mws, eps, cur, stack, req0, rets, log>>

\* the base handler removes an entry of the store of the request it owns
HandlerRemove(r, t) ==
    /\ pc[r] = "handler"
    /\ ext' = [ext EXCEPT ![r] = ExtRemove(@, t)]
    /\ hop' = [hop EXCEPT ![r] = [op |-> "remove", type |-> t, val |-> NoValue]]
    /\ pc' = [pc EXCEPT ![r] = "handled"]
    /\ UNCHANGED <<phase, mws, eps, cur, stack, req0, rets, log>>

\* control goes back to the endpoint awaiting at the top of the stack
Unwind(r) ==
    IF stack[r] = <<>>
    THEN /\ pc' = [pc EXCEPT ![r] = "done"]
         /\ UNCHANGED <<cur, stack>>
    ELSE /\ pc' = [pc EXCEPT ![r] = "await"]
         /\ cur' = [cur EXCEPT ![r] = Head(stack[r])]
         /\ stack' = [stack EXCEPT ![r] = Tail(@)]

\* the base handler's call completes with Ok(r) or Err(e)
HandlerReturn(r, res) ==
    /\ pc[r] \in {"handler", "handled"}
    /\ rets' = [rets EXCEPT ![r][0] = res]
    /\ log' = [log EXCEPT ![r] = Append(@, Ev("ret", 0))]
    /\ Unwind(r)
    /\ UNCHANGED <<phase, mws, eps, req0, ext, hop>>

\* mutant: a failure of the wrapped endpoint is turned into a success
ReturnSwallowsError(r) ==
    /\ pc[r] = "await"
    /\ rets' = [rets EXCEPT ![r][cur[r]] =
                  IF rets[r][eps[cur[r]].inner].kind = "err"
                  THEN [kind |-> "ok", val |-> 200]
                  ELSE rets[r][eps[cur[r]].inner]]
    /\ log' = [log EXCEPT ![r] = Append(@, Ev("ret", cur[r]))]
    /\ Unwind(r)
    /\ UNCHANGED <<phase, mws, eps, req0, ext, hop>>

\* mutant: after a failure the wrapped endpoint is invoked once more
ReturnRetries(r) ==
    /\ pc[r] = "await"
    /\ IF rets[r][eps[cur[r]].inner].kind = "err" /\ CountRetries(r) = 0
       THEN /\ log' = [log EXCEPT ![r] = Append(@, Ev("retry", cur[r]))]
            /\ pc' = [pc EXCEPT ![r] = "delegate"]
            /\ UNCHANGED <<cur, stack, rets>>
       ELSE /\ rets' = [rets EXCEPT ![r][cur[r]] = rets[r][eps[cur[r]].inner]]
            /\ log' = [log EXCEPT ![r] = Append(@, Ev("ret", cur[r]))]
            /\ Unwind(r)
    /\ UNCHANGED <<phase, mws, eps, req0, ext, hop>>

\* line 94: `.await` yields the wrapped endpoint's result, which is call's result
Return(r) ==
    /\ pc[r] = "await"
    /\ rets' = [rets EXCEPT ![r][cur[r]] = rets[r][eps[cur[r]].inner]]
    /\ log' = [log EXCEPT ![r] = Append(@, Ev("ret", cur[r]))]
    /\ Unwind(r)
    /\ UNCHANGED <<phase, mws, eps, req0, ext, hop>>

Next ==
    \/ \E d \in DataVals : New(d[1], d[2])
    \/ \E m \in mws : Transform(m)
    \/ Run
    \/ \E r \in Requests, e0 \in InitExts : Send(r, e0)
    \/ \E r \in Requests : Insert(r)
    \/ \E r \in Requests : Delegate(r)
    \/ \E r \in Requests, t \in Types : HandlerInsert(r, t)
    \/ \E r \in Requests, t \in Types : HandlerRemove(r, t)
    \/ \E r \in Requests, res \in Results : HandlerReturn(r, res)
    \/ \E r \in Requests : Return(r)

Spec == Init /\ [][Next]_vars

\* ------------------------------------------------------- derived notions
Layers == 1..Len(eps)
\* the layers applied before layer i, i.e. the AddData layers inside it
Inside(i) == 1..(i - 1)
\* layer i is the innermost layer configured for its type
InnermostOfType(i) == \A j \in Inside(i) : eps[j].type # eps[i].type
HasEvent(r, e, i) == \E k \in DOMAIN log[r] : log[r][k] = Ev(e, i)
\* the positions in r's log at which event e of endpoint i stands
Positions(r, e, i) == {k \in DOMAIN log[r] : log[r][k] = Ev(e, i)}
\* the handler of request r is running and has not written to the store yet:
\* what ExtGet returns now is what the handler observes
HandlerObserves(r) == pc[r] = "handler"

WrappedTwice(a, b) ==
    /\ a \in Layers /\ b \in Layers /\ b = a + 1
    /\ eps[a].type = eps[b].type
    /\ eps[a].value # eps[b].value
    /\ \A j \in Layers \ {a, b} : eps[j].type # eps[a].type

\* C2 as stated (last registered wins): with the endpoint wrapped first with
\* AddData::new(a) and then with AddData::new(b) of the same type, the
\* innermost handler observes b.
C2_LastRegisteredWins ==
    \A r \in Requests : HandlerObserves(r) =>
        \A a \in Layers, b \in Layers : WrappedTwice(a, b) =>
            ExtGet(ext[r], eps[b].type) = eps[b].value

\* C2 as amended (first registered wins): with the endpoint wrapped first with
\* AddData::new(a) and then with AddData::new(b) of the same type, the b layer
\* inserts first and the a layer overwrites it, so the innermost handler
\* observes a, not b.
C2_FirstRegisteredWins ==
    \A r \in Requests : HandlerObserves(r) =>
        \A a \in Layers, b \in Layers : WrappedTwice(a, b) =>
            /\ ExtGet(ext[r], eps[a].type) = eps[a].value
            /\ ExtGet(ext[r], eps[b].type) # eps[b].value

\* 100 registered first, 200 second: the handler is running and sees 100
C2_Witness ==
    \E r \in Requests :
        /\ HandlerObserves(r)
        /\ WrappedTwice(1, 2)
        /\ eps[1].value = 100 /\ eps[2].value = 200
        /\ HasEvent(r, "insert", 2) /\ HasEvent(r, "insert", 1)
        /\ ExtGet(ext[r], "i32") = 100

\* ------------------------------------------------------------------ C3
Returned(r, i) == rets[r][i] # NoResult

\* C3 (pass-through transparency): whenever the call of an AddDataEndpoint has
\* returned, the wrapped endpoint's call has returned too and the two results
\* are the same Ok(r) or the same Err(e); a finished request's response is the
\* base handler's outcome.
C3_PassThrough ==
    \A r \in Requests :
        /\ \A i \in Layers : Returned(r, i) =>
              /\ Returned(r, eps[i].inner)
              /\ rets[r][i] = rets[r][eps[i].inner]
        /\ pc[r] = "done" => \A i \in Layers : rets[r][i] = rets[r][0] /\ rets[r][i] \in Results

\* a failure of the base handler came out of two layers as the same failure
C3_Witness ==
    \E r \in Requests :
        /\ pc[r] = "done"
        /\ Len(eps) = 2
        /\ rets[r][0] = [kind |-> "err", val |-> 404]
        /\ rets[r][2] = [kind |-> "err", val |-> 404]

\* ------------------------------------------------------------------ C4
\* the entries request r's own handling may have put into its store: what it
\* arrived with, the values of the layers that have inserted for r, and what
\* its own handler inserted
OwnEntries(r) ==
    req0[r]
    \cup {<<eps[i].type, eps[i].value>> : i \in {j \in Layers : HasEvent(r, "insert", j)}}
    \cup (IF hop[r].op = "insert" THEN {<<hop[r].type, hop[r].val>>} ELSE {})

\* C4 (no cross-request leakage): under every interleaving of the requests
\* handled by the same endpoints, every entry of a request's extension store
\* is one it arrived with, a configured AddData value inserted by a layer for
\* this request, or a value its own handler inserted; nothing another
\* request's handler inserted is ever in it.
C4_NoLeak ==
    \A r \in Requests :
        /\ ext[r] \subseteq OwnEntries(r)
        /\ \A q \in Requests \ {r} : \A t \in Types : <<t, HandlerVal(q)>> \notin ext[r]

\* both handlers have inserted their own value under the same type while both
\* requests are in flight through the same layer; each store holds its own
C4_Witness ==
    /\ Len(eps) >= 1
    /\ pc["r1"] = "handled" /\ pc["r2"] = "handled"
    /\ hop["r1"].op = "insert" /\ hop["r2"].op = "insert"
    /\ hop["r1"].type = "i32" /\ hop["r2"].type = "i32"
    /\ ExtGet(ext["r1"], "i32") = HandlerVal("r1")
    /\ ExtGet(ext["r2"], "i32") = HandlerVal("r2")

\* ------------------------------------------------------------------ C5
\* layer i's wrapped call has started for request r and has not returned
Awaiting(r, i) == \E k \in DOMAIN stack[r] : stack[r][k] = i
\* the wrapped endpoint of layer i has itself written layer i's slot
WrappedWroteSlot(r, i) ==
    \/ \E j \in Inside(i) : eps[j].type = eps[i].type /\ HasEvent(r, "insert", j)
    \/ hop[r].op # "none" /\ hop[r].type = eps[i].type

\* C5 as stated: from the start of the wrapped endpoint's call until it
\* returns, the store holds the layer's value v under T, whatever the wrapped
\* endpoint is.  Stated here for wrapped endpoints whose base handler writes
\* nothing to the store, so that only AddData layers act on it.
C5_HeldThroughout ==
    \A r \in Requests : \A i \in Layers : (Awaiting(r, i) /\ hop[r] = NoOp) =>
        ExtGet(ext[r], eps[i].type) = eps[i].value

\* C5 as amended: the store holds v under T when the wrapped endpoint's call
\* starts, and from then until the wrapped call returns for as long as the
\* wrapped endpoint has not itself written the T slot (an inner AddData layer
\* of type T inserting its value, or the handler inserting or removing T).
C5_HeldUntilOverwritten ==
    \A r \in Requests : \A i \in Layers :
        /\ (pc[r] = "delegate" /\ cur[r] = i) => ExtGet(ext[r], eps[i].type) = eps[i].value
        /\ (Awaiting(r, i) /\ ~WrappedWroteSlot(r, i)) =>
              /\ ExtHas(ext[r], eps[i].type)
              /\ ExtGet(ext[r], eps[i].type) = eps[i].value

\* the outer of two layers of different types still holds its value while the
\* handler, having written the other type, runs inside the wrapped call
C5_Witness ==
    \E r \in Requests :
        /\ Len(eps) = 2
        /\ eps[2].type = "u8" /\ eps[1].type = "i32"
        /\ Awaiting(r, 2)
        /\ pc[r] = "handled" /\ hop[r].type = "i32"
        /\ ExtGet(req0[r], "u8") = 1
        /\ ExtGet(ext[r], "u8") = 7

\* ------------------------------------------------------------------ C6
\* request r takes the insertion step of the layer it is in
InsertStep(r) == pc[r] = "insert" /\ pc'[r] = "delegate"

\* C6 (isolation across types): the insertion of an AddData<T1> layer leaves
\* get::<T2>() as it was for every other type T2, absent or present; and when
\* the handler runs under any stack of layers, a type no layer is configured
\* for reads as it did when the request arrived.
C6_TypeIsolation ==
    /\ [][\A r \in Requests : InsertStep(r) =>
            \A t \in Types \ {eps[cur[r]].type} :
                /\ ExtHas(ext'[r], t) = ExtHas(ext[r], t)
                /\ ExtGet(ext'[r], t) = ExtGet(ext[r], t)]_vars
    /\ [](\A r \in Requests : HandlerObserves(r) =>
            \A t \in Types : (\A i \in Layers : eps[i].type # t) =>
                /\ ExtHas(ext[r], t) = ExtHas(req0[r], t)
                /\ ExtGet(ext[r], t) = ExtGet(req0[r], t))

\* an i32 layer has inserted into a store that arrived with u8 = 1, which the
\* store still holds; and another request's store still has no u8 at all
C6_Witness ==
    \E r \in Requests, q \in Requests :
        /\ Len(eps) >= 1 /\ \A i \in Layers : eps[i].type = "i32"
        /\ HandlerObserves(r) /\ HandlerObserves(q)
        /\ ExtGet(req0[r], "u8") = 1 /\ ExtGet(ext[r], "u8") = 1
        /\ ExtGet(ext[r], "i32") \in {100, 200}
        /\ req0[q] = {} /\ ~ExtHas(ext[q], "u8") /\ ExtHas(ext[q], "i32")

\* ------------------------------------------------------------------ C7
\* the order the wrapping order prescribes for n layers: layer n is called and
\* inserts, then layer n-1, ..., layer 1, then the base handler is called and
\* returns, then layers 1, ..., n return
CanonLen(n) == 3 * n + 2
CanonOrder(n, k) ==
    IF k <= 2 * n
    THEN Ev(IF k % 2 = 1 THEN "call" ELSE "insert", n - ((k - 1) \div 2))
    ELSE IF k = 2 * n + 1 THEN Ev("call", 0)
    ELSE Ev("ret", k - 2 * n - 2)

\* C7 (execution order follows wrapping order): what has happened so far for
\* a request is always an initial part of the prescribed order: the layer
\* applied last inserts first, the layer applied first inserts last, every
\* insertion precedes the base handler's start, and the returns go outward
\* through every layer.
C7_WrappingOrder ==
    \A r \in Requests :
        /\ Len(log[r]) <= CanonLen(Len(eps))
        /\ \A k \in DOMAIN log[r] : log[r][k] = CanonOrder(Len(eps), k)
        /\ pc[r] = "done" => Len(log[r]) = CanonLen(Len(eps))

\* a request went through two layers and back
C7_Witness ==
    \E r \in Requests :
        /\ Len(eps) = 2
        /\ pc[r] = "done"
        /\ log[r] = <<Ev("call", 2), Ev("insert", 2), Ev("call", 1), Ev("insert", 1),
                      Ev("call", 0), Ev("ret", 0), Ev("ret", 1), Ev("ret", 2)>>

\* ------------------------------------------------------------------ C8
\* C8 (insert, then delegate, exactly once): in every call of a layer the
\* insertion happens at most once and before the wrapped endpoint's call
\* starts; the wrapped endpoint is invoked at most once, and exactly once by
\* the time the layer's call has returned, whether it succeeded or failed.
C8_InsertThenDelegateOnce ==
    \A r \in Requests : \A i \in Layers :
        LET inserts == Positions(r, "insert", i)
            calls == Positions(r, "call", eps[i].inner)
            returns == Positions(r, "ret", eps[i].inner)
        IN
        /\ Cardinality(inserts) <= 1
        /\ Cardinality(calls) <= 1
        /\ \A c \in calls : \E k \in inserts : k < c
        /\ (pc[r] = "delegate" /\ cur[r] = i) => calls = {}
        /\ HasEvent(r, "ret", i) =>
              /\ Cardinality(inserts) = 1
              /\ Cardinality(calls) = 1
              /\ Cardinality(returns) = 1

\* the wrapped endpoint failed and the layer returned after one invocation
C8_Witness ==
    \E r \in Requests :
        /\ Len(eps) >= 1
        /\ HasEvent(r, "ret", 1)
        /\ rets[r][0].kind = "err"
        /\ Cardinality(Positions(r, "call", 0)) = 1

\* ------------------------------------------------------------------ C9
\* some request takes a step of its call chain
RequestStep == \E r \in Requests : pc'[r] # pc[r]

\* C9 (configuration is immutable): no step changes an AddData that exists or
\* an AddDataEndpoint that exists (its value, its type, the endpoint it
\* wraps); every endpoint's value is the value of an AddData constructed by
\* new; and a step of a request's call chain changes no store but that
\* request's.
C9_ConfigImmutable ==
    /\ [][/\ mws \subseteq mws'
          /\ \A i \in Layers : i \in DOMAIN eps' /\ eps'[i] = eps[i]
          /\ RequestStep => /\ mws' = mws /\ eps' = eps
                            /\ \A r \in Requests : pc'[r] = pc[r] => ext'[r] = ext[r]]_vars
    /\ [](\A i \in Layers : [type |-> eps[i].type, value |-> eps[i].value] \in mws)

\* after one AddData was transformed twice and two requests went through,
\* one failing and one whose handler overwrote the slot
C9_Witness ==
    /\ Len(eps) = 2 /\ eps[1].value = 100 /\ eps[2].value = 100
    /\ mws = {[type |-> "i32", value |-> 100]}
    /\ pc["r1"] = "done" /\ pc["r2"] = "done"
    /\ rets["r1"][2].kind = "err"
    /\ hop["r2"].op = "insert" /\ hop["r2"].type = "i32"

\* ----------------------------------------------------------------- C10
OneSlotPerType(e) == \A x \in e, y \in e : x[1] = y[1] => x = y

\* C10 (one slot per type): every request's store holds at most one value per
\* type in every reachable state; and a layer's insertion into a store already
\* holding an entry of its type replaces that entry by the layer's value and
\* leaves the number of entries as it was.
C10_OneSlotPerType ==
    /\ [](\A r \in Requests : OneSlotPerType(ext[r]))
    /\ [][\A r \in Requests : (InsertStep(r) /\ ExtHas(ext[r], eps[cur[r]].type)) =>
            /\ Cardinality(ext'[r]) = Cardinality(ext[r])
            /\ <<eps[cur[r]].type, eps[cur[r]].value>> \in ext'[r]
            /\ ExtGet(ext'[r], eps[cur[r]].type) = eps[cur[r]].value]_vars

\* the layer's 200 has replaced the caller's 1; the store still has two entries
C10_Witness ==
    \E r \in Requests :
        /\ pc[r] = "delegate"
        /\ eps[cur[r]].type = "i32" /\ eps[cur[r]].value = 200
        /\ req0[r] = {<<"i32", 1>>, <<"u8", 1>>}
        /\ ext[r] = {<<"i32", 200>>, <<"u8", 1>>}

====
